---- MODULE Spec2Model ----
(***************************************************************************)
(* LinkHeaderInterceptor (src/src/add-link-header.interceptor.ts).         *)
(*                                                                         *)
(* Two specifications over one set of variables:                           *)
(*   SpecBuilder  one call of setLinkHeader on a LinkOptions value drawn   *)
(*                from a bounded set (the pure link construction);         *)
(*   Spec         several requests passing through one interceptor         *)
(*                instance: intercept, then the notifications of the       *)
(*                handler's stream (values, an error, completion), in any  *)
(*                order.                                                   *)
(*                                                                         *)
(* A JavaScript string that the code reads (splits, converts to a number)  *)
(* is the sequence of its characters; a string that the code only writes   *)
(* (a url, a header) is a TLA+ string.                                     *)
(***************************************************************************)
EXTENDS Integers, Sequences, FiniteSets, TLC

\* ------------------------------------------------------------------ bounds
\* linkOptions.page ranges over the decimal strings "0" .. MaxPage and the
\* strings of OtherPageStrings.
MaxPage == 4
\* linkOptions.limit ranges over the decimal strings "0" .. MaxLimit and the
\* strings of OtherLimitStrings.
MaxLimit == 3
\* linkOptions.totalDocs ranges over 0 .. MaxTotalDocs (and NaN).
MaxTotalDocs == 7
\* Requests in flight through the interceptor instance.
NumRequests == 2
\* Values the stream of one handler emits.
MaxEmissions == 2
\* Number() is modelled for strings of at most MaxDigits significant digits,
\* so for values below 10^MaxDigits.
MaxDigits == 8

\* ------------------------------------------------------- JavaScript numbers
\* A number: a finite value num/den in lowest terms (den > 0), -0, NaN,
\* Infinity or -Infinity.
Num(n) == [kind |-> "finite", num |-> n, den |-> 1]
NegZero == [kind |-> "-0", num |-> 0, den |-> 1]
NaN == [kind |-> "NaN", num |-> 0, den |-> 1]
Infinity == [kind |-> "Infinity", num |-> 0, den |-> 1]
NegInfinity == [kind |-> "-Infinity", num |-> 0, den |-> 1]

Abs(n) == IF n < 0 THEN -n ELSE n

RECURSIVE Gcd(_, _)
Gcd(a, b) == IF b = 0 THEN a ELSE Gcd(b, a % b)

RECURSIVE Pow10(_)
Pow10(k) == IF k = 0 THEN 1 ELSE 10 * Pow10(k - 1)

\* The finite number n/d (d > 0) in lowest terms.
Ratio(n, d) ==
    LET g == Gcd(Abs(n), d)
    IN  [kind |-> "finite", num |-> n \div g, den |-> d \div g]

IsFinite(x) == x.kind \in {"finite", "-0"}
IsInt(x) == IsFinite(x) /\ x.den = 1

\* ------------------------------------------------------ Number(string)
\* The digits of the bases up to 16, in lower and in upper case.
Digits == <<"0", "1", "2", "3", "4", "5", "6", "7", "8", "9",
            "a", "b", "c", "d", "e", "f">>
UpperDigits == <<"0", "1", "2", "3", "4", "5", "6", "7", "8", "9",
                 "A", "B", "C", "D", "E", "F">>
WhiteSpace == {" ", "\t", "\n", "\f", "\r"}
\* The characters the model reads: printable ASCII but the backquote, in the
\* order of their codes (\x20 to \x5f, \x61 to \x7e), and the white space
\* above.
AsciiBelowBackquote ==
    <<" ", "!", "\"", "#", "$", "%", "&", "'", "(", ")", "*", "+", ",", "-", ".", "/",
      "0", "1", "2", "3", "4", "5", "6", "7", "8", "9", ":", ";", "<", "=", ">", "?",
      "@", "A", "B", "C", "D", "E", "F", "G", "H", "I", "J", "K", "L", "M", "N", "O",
      "P", "Q", "R", "S", "T", "U", "V", "W", "X", "Y", "Z", "[", "\\", "]", "^", "_">>
AsciiAboveBackquote ==
    <<"a", "b", "c", "d", "e", "f", "g", "h", "i", "j", "k", "l", "m", "n", "o", "p",
      "q", "r", "s", "t", "u", "v", "w", "x", "y", "z", "{", "|", "}", "~">>
Ascii ==
    {AsciiBelowBackquote[i] : i \in 1..64} \cup {AsciiAboveBackquote[i] : i \in 1..30}

\* The value of a character as a digit, 16 when it is none.
DigitValue(c) ==
    IF \E i \in 1..16 : Digits[i] = c THEN (CHOOSE i \in 1..16 : Digits[i] = c) - 1
    ELSE IF \E i \in 1..16 : UpperDigits[i] = c
    THEN (CHOOSE i \in 1..16 : UpperDigits[i] = c) - 1
    ELSE 16

AllDigits(s, base) == \A i \in 1..Len(s) : DigitValue(s[i]) < base

RECURSIVE TrimStart(_)
TrimStart(s) ==
    IF s # <<>> /\ Head(s) \in WhiteSpace THEN TrimStart(Tail(s)) ELSE s

RECURSIVE TrimEnd(_)
TrimEnd(s) ==
    IF s # <<>> /\ s[Len(s)] \in WhiteSpace
    THEN TrimEnd(SubSeq(s, 1, Len(s) - 1)) ELSE s

RECURSIVE StripZeros(_)
StripZeros(s) == IF s # <<>> /\ Head(s) = "0" THEN StripZeros(Tail(s)) ELSE s

RECURSIVE StripZerosEnd(_)
StripZerosEnd(s) ==
    IF s # <<>> /\ s[Len(s)] = "0"
    THEN StripZerosEnd(SubSeq(s, 1, Len(s) - 1)) ELSE s

\* The value of a sequence of digits of the base.
RECURSIVE DigitsValue(_, _)
DigitsValue(s, base) ==
    IF s = <<>> THEN 0
    ELSE base * DigitsValue(SubSeq(s, 1, Len(s) - 1), base) + DigitValue(s[Len(s)])

\* The first index of a character of the set in s, 0 when there is none.
IndexOf(s, chars) ==
    IF \E i \in 1..Len(s) : s[i] \in chars
    THEN CHOOSE i \in 1..Len(s) : s[i] \in chars /\ \A j \in 1..(i - 1) : s[j] \notin chars
    ELSE 0

\* What a parse yields: no number (NaN), a number of the model, or a number
\* beyond it (too many digits, or not a multiple of 1/8).
NotNumeric == [is |-> "NaN", value |-> NaN]
Parsed(x) == [is |-> "number", value |-> x]
Beyond == [is |-> "beyond", value |-> NaN]

\* A finite number, when it is a multiple of 1/8.
Eighths(x) == IF x.den \in {1, 2, 4, 8} THEN Parsed(x) ELSE Beyond

\* sign * m * 10^exp for an integer m > 0.
Signed(sign, m, exp) ==
    IF exp >= 0 THEN Parsed(Num(sign * m * Pow10(exp)))
    ELSE Eighths(Ratio(sign * m, Pow10(-exp)))

\* digits * 10^exp, the digits without zeros at either end.
Magnitude(negative, digits, exp) ==
    IF digits = <<>> THEN Parsed(IF negative THEN NegZero ELSE Num(0))
    ELSE IF Len(digits) > MaxDigits \/ Len(digits) + exp > MaxDigits \/ exp < -3
    THEN Beyond
    ELSE Signed(IF negative THEN -1 ELSE 1, DigitsValue(digits, 10), exp)

\* mantissa * 10^exponent, the mantissa a sequence of decimal digits without
\* leading zeros.
Significant(negative, mantissa, exponent) ==
    Magnitude(negative, StripZerosEnd(mantissa),
              exponent + (Len(mantissa) - Len(StripZerosEnd(mantissa))))

\* The digits of an exponent, its sign taken off.
ExponentDigits(sign, digits) ==
    IF digits = <<>> \/ ~AllDigits(digits, 10) THEN NotNumeric
    ELSE IF Len(StripZeros(digits)) > 1 THEN Beyond
    ELSE Parsed(Num(sign * DigitsValue(digits, 10)))

\* [+-] digits: the exponent after e or E.
ExponentOf(s) ==
    IF s # <<>> /\ Head(s) \in {"+", "-"}
    THEN ExponentDigits(IF Head(s) = "-" THEN -1 ELSE 1, Tail(s))
    ELSE ExponentDigits(1, s)

\* digits [. digits] or . digits, times 10^exponent.
Decimal(negative, whole, fraction, exponent) ==
    IF \/ whole = <<>> /\ fraction = <<>>
       \/ ~AllDigits(whole, 10) \/ ~AllDigits(fraction, 10)
       \/ exponent.is = "NaN"
    THEN NotNumeric
    ELSE IF exponent.is = "beyond" THEN Beyond
    ELSE Significant(negative, StripZeros(whole \o fraction),
                     exponent.value.num - Len(fraction))

\* The mantissa cut at its point (dot = 0: no point).
Mantissa(negative, mantissa, dot, exponent) ==
    Decimal(negative,
            IF dot = 0 THEN mantissa ELSE SubSeq(mantissa, 1, dot - 1),
            IF dot = 0 THEN <<>> ELSE SubSeq(mantissa, dot + 1, Len(mantissa)),
            exponent)

\* The literal cut at its e or E (e = 0: no exponent).
WithExponent(negative, s, e) ==
    Mantissa(negative,
             IF e = 0 THEN s ELSE SubSeq(s, 1, e - 1),
             IndexOf(IF e = 0 THEN s ELSE SubSeq(s, 1, e - 1), {"."}),
             IF e = 0 THEN Parsed(Num(0)) ELSE ExponentOf(SubSeq(s, e + 1, Len(s))))

\* StrUnsignedDecimalLiteral: Infinity, or digits [. digits] [exponent], or
\* . digits [exponent].
UnsignedDecimal(negative, s) ==
    IF s = <<"I", "n", "f", "i", "n", "i", "t", "y">>
    THEN Parsed(IF negative THEN NegInfinity ELSE Infinity)
    ELSE WithExponent(negative, s, IndexOf(s, {"e", "E"}))

\* 0x, 0o, 0b literals: no sign, at least one digit.
NonDecimal(digits, base) ==
    IF digits = <<>> \/ ~AllDigits(digits, base) THEN NotNumeric
    ELSE IF Len(StripZeros(digits)) > 6 THEN Beyond
    ELSE Parsed(Num(DigitsValue(digits, base)))

\* StrNumericLiteral, white space trimmed: "" is 0.
NumericLiteral(s) ==
    IF s = <<>> THEN Parsed(Num(0))
    ELSE IF Len(s) >= 2 /\ s[1] = "0" /\ s[2] \in {"x", "X", "o", "O", "b", "B"}
    THEN NonDecimal(SubSeq(s, 3, Len(s)),
                    IF s[2] \in {"x", "X"} THEN 16 ELSE IF s[2] \in {"o", "O"} THEN 8 ELSE 2)
    ELSE UnsignedDecimal(s[1] = "-", IF s[1] \in {"+", "-"} THEN Tail(s) ELSE s)

\* StringToNumber. (A string with other characters than these may hold white
\* space the model does not know, and is beyond it.)
StringToNumber(chars) ==
    IF \E i \in 1..Len(chars) : chars[i] \notin Ascii \cup WhiteSpace THEN Beyond
    ELSE NumericLiteral(TrimEnd(TrimStart(chars)))

\* The number of a parse: defined where the result is NaN or a number the
\* model represents exactly, and nowhere else.
ValueOf(parse) == CASE parse.is \in {"NaN", "number"} -> parse.value

\* Number(s) for a string s.
Number(chars) == ValueOf(StringToNumber(chars))

\* ------------------------------------------------- arithmetic of the builder
\* The digits after the point of rem/den, 0 < rem < den, den 2, 4 or 8.
FractionDigits(rem, den) ==
    CASE den = 2 -> "5"
      [] den = 4 -> IF rem = 1 THEN "25" ELSE "75"
      [] den = 8 -> ToString(rem * 125)

\* x.toString() and `${x}` for a number x.
NumberToString(x) ==
    CASE x.kind = "NaN" -> "NaN"
      [] x.kind = "Infinity" -> "Infinity"
      [] x.kind = "-Infinity" -> "-Infinity"
      [] x.kind = "-0" -> "0"
      [] x.kind = "finite" /\ x.den = 1 -> ToString(x.num)
      [] x.kind = "finite" /\ x.den > 1 ->
           (IF x.num < 0 THEN "-" ELSE "") \o ToString(Abs(x.num) \div x.den)
               \o "." \o FractionDigits(Abs(x.num) % x.den, x.den)

\* x + k for a number x and an integer k # 0.
Plus(x, k) == IF IsFinite(x) THEN Ratio(x.num + k * x.den, x.den) ELSE x

\* x <= y: false when either side is NaN.
LessOrEqual(x, y) ==
    CASE x.kind = "NaN" \/ y.kind = "NaN" -> FALSE
      [] x.kind = "-Infinity" \/ y.kind = "Infinity" -> TRUE
      [] x.kind = "Infinity" \/ y.kind = "-Infinity" -> FALSE
      [] OTHER -> x.num * y.den <= y.num * x.den

\* x === k for a number x and an integer k # 0.
StrictEquals(x, k) == x.kind = "finite" /\ x.den = 1 /\ x.num = k

\* Math.floor(totalDocs / limit) for a finite or NaN totalDocs. n / 0 is NaN
\* for n = 0 and an infinity of the sign of n and of the zero otherwise;
\* n / Infinity is a zero. The quotient of two finite numbers of the model is
\* rounded by less than its distance to the integer below it.
FloorDiv(totalDocs, limit) ==
    CASE totalDocs.kind = "NaN" \/ limit.kind = "NaN" -> NaN
      [] limit.kind \in {"Infinity", "-Infinity"} -> Num(0)
      [] limit.num = 0 /\ totalDocs.num = 0 -> NaN
      [] limit.num = 0 /\ totalDocs.num # 0 ->
           IF (totalDocs.num > 0) = (limit.kind = "finite") THEN Infinity ELSE NegInfinity
      [] limit.num > 0 ->
           Num((totalDocs.num * limit.den) \div (totalDocs.den * limit.num))
      [] limit.num < 0 ->
           Num((-(totalDocs.num * limit.den)) \div (totalDocs.den * (-limit.num)))

\* A string as the sequence of its characters: the string itself.
RECURSIVE Join(_)
Join(chars) == IF chars = <<>> THEN "" ELSE Head(chars) \o Join(Tail(chars))

\* -------------------------------------------------------------- the builder
\* Mutant of lastPage: Math.ceil(totalDocs / limit) instead of floor + 1.
lastPageCeil(linkOptions) ==
    LET limit == Number(linkOptions.limit)
        total == linkOptions.totalDocs
    IN  IF IsInt(limit) /\ limit.num > 0 /\ IsInt(total)
        THEN Num((total.num + limit.num - 1) \div limit.num)
        ELSE Plus(FloorDiv(total, limit), 1)

\* Mutant of lastPage: Math.floor(totalDocs / limit), the + 1 left out.
lastPageNoPlusOne(linkOptions) ==
    FloorDiv(linkOptions.totalDocs, Number(linkOptions.limit))

\* Math.floor(totalDocs / Number(limit)) + 1, the page of the `last` URL.
lastPage(linkOptions) ==
    Plus(FloorDiv(linkOptions.totalDocs, Number(linkOptions.limit)), 1)

\* The switch of buildLink on rel, page being Number(linkOptions.page).
switchRel(rel, link, page, linkOptions) ==
    CASE rel = "first" ->
           [link EXCEPT !.url = @ \o "?page=1"]
      [] rel = "prev" ->
           [link EXCEPT !.page = NumberToString(Plus(page, -1)),
                        !.url = @ \o "?page=" \o NumberToString(Plus(page, -1))]
      [] rel = "last" ->
           [link EXCEPT !.url = @ \o "?page=" \o NumberToString(lastPage(linkOptions))]
      [] OTHER ->
           [link EXCEPT !.page = NumberToString(Plus(page, 1)),
                        !.url = @ \o "?page=" \o NumberToString(Plus(page, 1))]

\* link.url += `&per_page=${linkOptions.limit}`
withPerPage(link, linkOptions) ==
    [link EXCEPT !.url = @ \o "&per_page=" \o Join(linkOptions.limit)]

\* buildLink(rel, linkOptions): the link object of one relation.
buildLink(rel, linkOptions) ==
    withPerPage(switchRel(rel,
                          [url |-> linkOptions.resourceUrl,
                           rel |-> rel,
                           per_page |-> Join(linkOptions.limit),
                           page |-> Join(linkOptions.page)],
                          Number(linkOptions.page),
                          linkOptions),
                linkOptions)

\* Mutant of hasNextPage: page < Math.floor(totalDocs / Number(limit)).
hasNextPageStrict(linkOptions) ==
    LessOrEqual(Plus(Number(linkOptions.page), 1),
                FloorDiv(linkOptions.totalDocs, Number(linkOptions.limit)))

\* Mutant of hasNextPage: page <= Math.floor(totalDocs / Number(limit)) + 1.
hasNextPageUpToLast(linkOptions) ==
    LessOrEqual(Number(linkOptions.page),
                Plus(FloorDiv(linkOptions.totalDocs, Number(linkOptions.limit)), 1))

\* page <= Math.floor(totalDocs / Number(limit))
hasNextPage(linkOptions) ==
    LessOrEqual(Number(linkOptions.page),
                FloorDiv(linkOptions.totalDocs, Number(linkOptions.limit)))

\* Mutant of isFirstPage: a page beyond the last one is clamped, so it gets no
\* `prev` either.
isFirstPageClamped(linkOptions) ==
    \/ StrictEquals(Number(linkOptions.page), 1)
    \/ LessOrEqual(Plus(FloorDiv(linkOptions.totalDocs, Number(linkOptions.limit)), 2),
                   Number(linkOptions.page))

\* page === 1
isFirstPage(linkOptions) == StrictEquals(Number(linkOptions.page), 1)

\* The linkObject of setLinkHeader, as the sequence of its values in key
\* (insertion) order: first, last, then next and prev when they are added.
linkObject(linkOptions) ==
    <<buildLink("first", linkOptions), buildLink("last", linkOptions)>>
    \o (IF hasNextPage(linkOptions) THEN <<buildLink("next", linkOptions)>> ELSE <<>>)
    \o (IF ~isFirstPage(linkOptions) THEN <<buildLink("prev", linkOptions)>> ELSE <<>>)

\* One entry of the header: <url>; rel="..."; per_page="..."; page="...".
formatLink(link) ==
    "<" \o link.url \o ">; rel=\"" \o link.rel \o "\"; per_page=\"" \o link.per_page
        \o "\"; page=\"" \o link.page \o "\""

RECURSIVE JoinLinks(_)
JoinLinks(links) ==
    IF links = <<>> THEN ""
    ELSE IF Len(links) = 1 THEN formatLink(links[1])
    ELSE formatLink(links[1]) \o ", " \o JoinLinks(Tail(links))

\* formatLinkHeader(linkObject): the entries, comma separated.
formatLinkHeader(links) == JoinLinks(links)

\* return formatLinkHeader(linkObject)
returned(links) ==
    [status |-> "returned", links |-> links, header |-> formatLinkHeader(links)]

\* setLinkHeader(linkOptions): what the call produces. It has no throw
\* statement and no operation that throws on strings and numbers, so the
\* outcome is always a returned header.
setLinkHeader(linkOptions) == returned(linkObject(linkOptions))

\* ------------------------------------------------------------------- state
VARIABLES
    linkOptions,     \* SpecBuilder: the argument of the setLinkHeader call
    outcome,         \* SpecBuilder: what the call produced
    request,         \* Spec: per request, the incoming request (url, query)
    pc,              \* Spec: per request, "idle", "subscribed", "errored" or
                     \* "completed"
    closure,         \* Spec: per request, resourceUrl, page, limit of intercept
    payload,         \* Spec: per request, the data object emitted last
    emitted,         \* Spec: per request, the data objects emitted so far
    responseHeader,  \* Spec: per request, the Link header of its response
    setHeaderCalls   \* Spec: per request, the calls of response.setHeader

vars == <<linkOptions, outcome, request, pc, closure, payload, emitted,
          responseHeader, setHeaderCalls>>
builderVars == <<linkOptions, outcome>>
pipelineVars == <<request, pc, closure, payload, emitted, responseHeader,
                  setHeaderCalls>>

\* undefined, and a string, as the value of a query parameter.
Undefined == [defined |-> FALSE, chars |-> <<>>]
String(chars) == [defined |-> TRUE, chars |-> chars]

\* undefined, and an object with totalDocs, as the value a handler emits.
NoData == [defined |-> FALSE, totalDocs |-> NaN]
Data(totalDocs) == [defined |-> TRUE, totalDocs |-> totalDocs]

NotCalled == [status |-> "none", links |-> <<>>, header |-> ""]
NoOptions == [page |-> <<>>, limit |-> <<>>, resourceUrl |-> "", totalDocs |-> Num(0)]
NoRequest == [url |-> <<>>, query |-> [page |-> Undefined, per_page |-> Undefined]]
NoClosure == [resourceUrl |-> "", page |-> <<>>, limit |-> <<>>]
NoHeader == "no Link header"

\* ----------------------------------------------------- SpecBuilder: one call
\* The decimal string of n >= 0.
RECURSIVE DecimalChars(_)
DecimalChars(n) ==
    IF n < 10 THEN <<Digits[n + 1]>>
    ELSE DecimalChars(n \div 10) \o <<Digits[(n % 10) + 1]>>

\* Strings that are no plain decimal: "x", "03", "1.5", "Infinity", "" and
\* "undefined".
OtherPageStrings ==
    {<<"x">>, <<"0", "3">>, <<"1", ".", "5">>,
     <<"I", "n", "f", "i", "n", "i", "t", "y">>, <<>>,
     <<"u", "n", "d", "e", "f", "i", "n", "e", "d">>}
\* "x", "-0", "1.5", "0x2", " 2".
OtherLimitStrings ==
    {<<"x">>, <<"-", "0">>, <<"1", ".", "5">>, <<"0", "x", "2">>, <<" ", "2">>}

PageStrings == {DecimalChars(n) : n \in 0..MaxPage} \cup OtherPageStrings
LimitStrings == {DecimalChars(n) : n \in 0..MaxLimit} \cup OtherLimitStrings
ResourceUrls == {"/items", "/api/users"}
\* data.totalDocs: a count, or NaN (which a missing totalDocs divides to).
TotalDocs == {Num(n) : n \in 0..MaxTotalDocs} \cup {NaN}

LinkOptionsSet ==
    [page : PageStrings, limit : LimitStrings, resourceUrl : ResourceUrls,
     totalDocs : TotalDocs]

InitBuilder ==
    /\ linkOptions \in LinkOptionsSet
    /\ outcome = NotCalled
    /\ request = <<>>
    /\ pc = <<>>
    /\ closure = <<>>
    /\ payload = <<>>
    /\ emitted = <<>>
    /\ responseHeader = <<>>
    /\ setHeaderCalls = <<>>

\* this.setLinkHeader(linkOptions)
CallSetLinkHeader ==
    /\ outcome = NotCalled
    /\ outcome' = setLinkHeader(linkOptions)
    /\ UNCHANGED <<linkOptions, pipelineVars>>

NextBuilder == CallSetLinkHeader

SpecBuilder == InitBuilder /\ [][NextBuilder]_vars

\* ------------------------------------------------- Spec: the request pipeline
RequestIds == 1..NumRequests

\* Mutant of SplitFirst: cuts at the last '?' instead of the first.
SplitLast(chars) ==
    LET marks == {i \in 1..Len(chars) : chars[i] = "?"}
    IN  IF marks = {} THEN chars
        ELSE SubSeq(chars, 1, (CHOOSE i \in marks : \A j \in marks : i >= j) - 1)

\* url.split('?')[0]: the characters before the first '?', all of them when
\* there is none.
SplitFirst(chars) ==
    LET marks == {i \in 1..Len(chars) : chars[i] = "?"}
    IN  IF marks = {} THEN chars
        ELSE SubSeq(chars, 1, (CHOOSE i \in marks : \A j \in marks : i <= j) - 1)

\* value ?? fallback: the fallback for undefined, the value otherwise.
Coalesce(value, fallback) == IF value.defined THEN value.chars ELSE fallback

\* The code of a character the model reads.
CharCode(c) ==
    CASE c = "\t" -> 9
      [] c = "\n" -> 10
      [] c = "\f" -> 12
      [] c = "\r" -> 13
      [] \E i \in 1..64 : AsciiBelowBackquote[i] = c ->
           31 + (CHOOSE i \in 1..64 : AsciiBelowBackquote[i] = c)
      [] \E i \in 1..30 : AsciiAboveBackquote[i] = c ->
           96 + (CHOOSE i \in 1..30 : AsciiAboveBackquote[i] = c)

\* The characters a query value holds as they are: letters, digits and
\* - _ . ! ~ * ' ( ), as encodeURIComponent leaves them.
Unreserved ==
    {c \in Ascii : DigitValue(c) < 10 \/ CharCode(c) \in (65..90) \cup (97..122)}
    \cup {"-", "_", ".", "!", "~", "*", "'", "(", ")"}

\* A character of a query value as the url carries it: percent-encoded
\* unless unreserved, so that the query parser reads the value back.
EncodeChar(c) ==
    IF c \in Unreserved THEN <<c>>
    ELSE <<"%", UpperDigits[(CharCode(c) \div 16) + 1], UpperDigits[(CharCode(c) % 16) + 1]>>

RECURSIVE Encode(_)
Encode(chars) ==
    IF chars = <<>> THEN <<>> ELSE EncodeChar(Head(chars)) \o Encode(Tail(chars))

\* The requests the pipeline hands to intercept: a path, then the query string
\* that the query object was parsed from (a further parameter q, page,
\* per_page).
QueryParts(extra, page, perPage) ==
    (IF extra = <<>> THEN <<>> ELSE <<extra>>)
    \o (IF page.defined
        THEN <<<<"p", "a", "g", "e", "=">> \o Encode(page.chars)>> ELSE <<>>)
    \o (IF perPage.defined
        THEN <<<<"p", "e", "r", "_", "p", "a", "g", "e", "=">> \o Encode(perPage.chars)>>
        ELSE <<>>)

RECURSIVE JoinParts(_)
JoinParts(parts) ==
    IF parts = <<>> THEN <<>>
    ELSE IF Len(parts) = 1 THEN parts[1]
    ELSE parts[1] \o <<"&">> \o JoinParts(Tail(parts))

MakeRequest(path, extra, page, perPage) ==
    LET parts == QueryParts(extra, page, perPage)
    IN  [url |-> IF parts = <<>> THEN path ELSE path \o <<"?">> \o JoinParts(parts),
         query |-> [page |-> page, per_page |-> perPage]]

\* /a, /b/c?q=?&page=3&per_page=2 and /a?page=undefined&per_page=%0A2 (page
\* the string "undefined", per_page a line feed and "2").
Requests ==
    {MakeRequest(<<"/", "a">>, <<>>, Undefined, Undefined),
     MakeRequest(<<"/", "b", "/", "c">>, <<"q", "=", "?">>,
                 String(<<"3">>), String(<<"2">>)),
     MakeRequest(<<"/", "a">>, <<>>,
                 String(<<"u", "n", "d", "e", "f", "i", "n", "e", "d">>),
                 String(<<"\n", "2">>))}

\* What a handler emits: undefined, an object with totalDocs 250, or an object
\* without totalDocs (undefined / n is NaN, as NaN / n is).
HandlerData == {NoData, Data(Num(250)), Data(NaN)}

Init ==
    /\ linkOptions = NoOptions
    /\ outcome = NotCalled
    /\ request = [r \in RequestIds |-> NoRequest]
    /\ pc = [r \in RequestIds |-> "idle"]
    /\ closure = [r \in RequestIds |-> NoClosure]
    /\ payload = [r \in RequestIds |-> NoData]
    /\ emitted = [r \in RequestIds |-> 0]
    /\ responseHeader = [r \in RequestIds |-> NoHeader]
    /\ setHeaderCalls = [r \in RequestIds |-> 0]

\* intercept(context, next) up to the return of the piped observable, and its
\* subscription: the three constants of the call are captured by the map
\* callback.
Intercept(r, req) ==
    /\ pc[r] = "idle"
    /\ request' = [request EXCEPT ![r] = req]
    /\ closure' = [closure EXCEPT ![r] =
                     [resourceUrl |-> Join(SplitFirst(req.url)),
                      page |-> Coalesce(req.query.page, <<"1">>),
                      limit |-> Coalesce(req.query.per_page, <<"1", "0", "0">>)]]
    /\ pc' = [pc EXCEPT ![r] = "subscribed"]
    /\ UNCHANGED <<builderVars, payload, emitted, responseHeader, setHeaderCalls>>

\* response.setHeader('Link', value) rejects a value with a character other
\* than tab, \x20-\x7e and \x80-\xff: of the characters the model reads, the
\* line feed, the form feed and the carriage return.
checkInvalidHeaderChar(chars) ==
    CASE \A i \in 1..Len(chars) : chars[i] \in Ascii \cup WhiteSpace ->
           \E i \in 1..Len(chars) : chars[i] \in {"\n", "\f", "\r"}

\* Whether response.setHeader throws on the header of these options. Every
\* header holds page and limit as they are (page="..." of `first`,
\* per_page="..." of every entry); the rest of it is the url of a request
\* that the HTTP parser has accepted, numbers, and the text of the format.
setHeaderThrows(options) ==
    checkInvalidHeaderChar(options.page \o options.limit)

\* Mutant of HandlerEmits: page, limit and resourceUrl are kept in fields of
\* the interceptor instance, so the callback reads those of the request that
\* was intercepted last (here: the highest one that has been intercepted).
HandlerEmitsShared(r, data) ==
    LET latest == CHOOSE q \in RequestIds :
                     /\ pc[q] # "idle"
                     /\ \A o \in RequestIds : pc[o] # "idle" => o <= q
    IN  /\ pc[r] = "subscribed"
        /\ data.defined
        /\ emitted[r] < MaxEmissions
        /\ payload' = [payload EXCEPT ![r] = data]
        /\ emitted' = [emitted EXCEPT ![r] = @ + 1]
        /\ setHeaderCalls' = [setHeaderCalls EXCEPT ![r] = @ + 1]
        /\ IF setHeaderThrows(closure[latest])
           THEN /\ pc' = [pc EXCEPT ![r] = "errored"]
                /\ UNCHANGED responseHeader
           ELSE /\ responseHeader' = [responseHeader EXCEPT ![r] =
                      setLinkHeader([page |-> closure[latest].page,
                                     limit |-> closure[latest].limit,
                                     resourceUrl |-> closure[latest].resourceUrl,
                                     totalDocs |-> data.totalDocs]).header]
                /\ UNCHANGED pc
        /\ UNCHANGED <<builderVars, request, closure>>

\* The handler's stream emits a value: the map callback runs within the
\* emission. For an object it builds the header and calls response.setHeader
\* with it on the response of this context: the call sets the header, and
\* the stream stays open for further values, or it throws on a character
\* that no header value may hold, sets nothing, and map turns the exception
\* into the error of the stream. For undefined, data.totalDocs throws a
\* TypeError, which ends the stream in the same way before the builder runs.
HandlerEmits(r, data) ==
    /\ pc[r] = "subscribed"
    /\ IF data.defined
       THEN /\ emitted[r] < MaxEmissions
            /\ payload' = [payload EXCEPT ![r] = data]
            /\ emitted' = [emitted EXCEPT ![r] = @ + 1]
            /\ setHeaderCalls' = [setHeaderCalls EXCEPT ![r] = @ + 1]
            /\ IF setHeaderThrows(closure[r])
               THEN /\ pc' = [pc EXCEPT ![r] = "errored"]
                    /\ UNCHANGED responseHeader
               ELSE /\ responseHeader' = [responseHeader EXCEPT ![r] =
                          setLinkHeader([page |-> closure[r].page,
                                         limit |-> closure[r].limit,
                                         resourceUrl |-> closure[r].resourceUrl,
                                         totalDocs |-> data.totalDocs]).header]
                    /\ UNCHANGED pc
       ELSE /\ pc' = [pc EXCEPT ![r] = "errored"]
            /\ UNCHANGED <<payload, emitted, responseHeader, setHeaderCalls>>
    /\ UNCHANGED <<builderVars, request, closure>>

\* Mutant of HandlerThrows: the header is set on the error path too (the work
\* done in finalize instead of map), from a payload without documents.
HandlerThrowsSetsHeader(r) ==
    /\ pc[r] = "subscribed"
    /\ responseHeader' = [responseHeader EXCEPT ![r] =
          setLinkHeader([page |-> closure[r].page,
                         limit |-> closure[r].limit,
                         resourceUrl |-> closure[r].resourceUrl,
                         totalDocs |-> Num(0)]).header]
    /\ setHeaderCalls' = [setHeaderCalls EXCEPT ![r] = @ + 1]
    /\ pc' = [pc EXCEPT ![r] = "errored"]
    /\ UNCHANGED <<builderVars, request, closure, payload, emitted>>

\* The handler's stream errors, before or after values: map passes the error
\* on, its callback is not called, and the stream is over.
HandlerThrows(r) ==
    /\ pc[r] = "subscribed"
    /\ pc' = [pc EXCEPT ![r] = "errored"]
    /\ UNCHANGED <<builderVars, request, closure, payload, emitted, responseHeader,
                   setHeaderCalls>>

\* The handler's stream completes: map passes the completion on, and the
\* stream is over.
HandlerCompletes(r) ==
    /\ pc[r] = "subscribed"
    /\ pc' = [pc EXCEPT ![r] = "completed"]
    /\ UNCHANGED <<builderVars, request, closure, payload, emitted, responseHeader,
                   setHeaderCalls>>

Next ==
    \/ \E r \in RequestIds, req \in Requests : Intercept(r, req)
    \/ \E r \in RequestIds, data \in HandlerData : HandlerEmits(r, data)
    \/ \E r \in RequestIds : HandlerThrows(r)
    \/ \E r \in RequestIds : HandlerCompletes(r)

Spec == Init /\ [][Next]_vars


\* =================================================================== claims
\* ------------------------------------------------ the builder (SpecBuilder)
Called == outcome.status # "none"

\* The call's inputs as the integers the properties speak of: page and limit
\* plain decimal strings, totalDocs a count.
InputIs(page, limit) ==
    /\ Called
    /\ linkOptions.page = DecimalChars(page)
    /\ linkOptions.limit = DecimalChars(limit)
    /\ linkOptions.totalDocs.kind = "finite"

LimitIs(limit) ==
    /\ Called
    /\ linkOptions.limit = DecimalChars(limit)
    /\ linkOptions.totalDocs.kind = "finite"

Pages == 1..MaxPage
Limits == 1..MaxLimit

Entries(rel) == {i \in DOMAIN outcome.links : outcome.links[i].rel = rel}
Has(rel) == Entries(rel) # {}
Entry(rel) == outcome.links[CHOOSE i \in Entries(rel) : TRUE]
EmittedRelations == {outcome.links[i].rel : i \in DOMAIN outcome.links}

\* resourceUrl?page=<n>&per_page=<limit>
UrlOfPage(n) ==
    linkOptions.resourceUrl \o "?page=" \o ToString(n) \o "&per_page="
        \o Join(linkOptions.limit)

\* C1: for page >= 1, limit >= 1, totalDocs >= 0 the header has a `next` entry
\* iff page <= floor(totalDocs / limit), and its URL is
\* resourceUrl?page=<page+1>&per_page=<limit>; exact multiples included.
C1_NextIffPageLeFloor ==
    \A page \in Pages, limit \in Limits :
        InputIs(page, limit) =>
            /\ Has("next") <=> page <= linkOptions.totalDocs.num \div limit
            /\ Has("next") => Entry("next").url = UrlOfPage(page + 1)

\* C1 witness: totalDocs an exact multiple of limit, page 1 = totalDocs / limit,
\* and a `next` pointing at page 2.
C1_Witness ==
    /\ InputIs(1, MaxLimit)
    /\ linkOptions.totalDocs = Num(MaxLimit)
    /\ Has("next")
    /\ Entry("next").url = UrlOfPage(2)

\* C2: for page >= 1, limit >= 1, totalDocs >= 0 the header has a `prev` entry
\* iff page > 1, and it points at page - 1 (URL and page field); nothing is
\* clamped when page is beyond lastPage.
C2_PrevIffPageGtOne ==
    \A page \in Pages, limit \in Limits :
        InputIs(page, limit) =>
            /\ Has("prev") <=> page > 1
            /\ Has("prev") =>
                  /\ Entry("prev").url = UrlOfPage(page - 1)
                  /\ Entry("prev").page = ToString(page - 1)

\* C2 witness: a page two beyond lastPage, with a `prev` to the page before it.
C2_Witness ==
    \E page \in Pages, limit \in Limits :
        /\ InputIs(page, limit)
        /\ page > linkOptions.totalDocs.num \div limit + 2
        /\ Has("prev")
        /\ Entry("prev").page = ToString(page - 1)

\* C3: for limit >= 1 and totalDocs >= 0, whatever the page, the header has a
\* `first` entry with URL resourceUrl?page=1&per_page=<limit> and a `last` entry
\* with URL resourceUrl?page=<lastPage>&per_page=<limit>,
\* lastPage = floor(totalDocs / limit) + 1 >= 1.
C3_FirstAndLastAlways ==
    \A limit \in Limits :
        LimitIs(limit) =>
            /\ Has("first") /\ Has("last")
            /\ Entry("first").url = UrlOfPage(1)
            /\ Entry("last").url = UrlOfPage(linkOptions.totalDocs.num \div limit + 1)
            /\ linkOptions.totalDocs.num \div limit + 1 >= 1

\* C3 witness: a page that is no number at all, totalDocs an exact multiple of
\* limit, and `last` on the page after the full ones.
C3_Witness ==
    /\ LimitIs(2)
    /\ linkOptions.page = <<"x">>
    /\ linkOptions.totalDocs = Num(4)
    /\ Has("first")
    /\ Entry("last").url = UrlOfPage(3)

\* C4: the page field of every entry is the page its URL points to: `first`
\* has page 1 and `last` has page lastPage for every current page, as `prev`
\* has page - 1 and `next` has page + 1.
C4_PageFieldIsLinkedPage ==
    \A page \in Pages, limit \in Limits :
        InputIs(page, limit) =>
            /\ Entry("first").page = "1"
            /\ Entry("last").page = ToString(linkOptions.totalDocs.num \div limit + 1)
            /\ Has("prev") => Entry("prev").page = ToString(page - 1)
            /\ Has("next") => Entry("next").page = ToString(page + 1)

\* C5 as stated: with totalDocs = 0, page >= 1 and limit >= 1 the header has
\* only `first` and `last`, both pointing at page 1.
C5_OnlyFirstAndLast ==
    \A page \in Pages, limit \in Limits :
        (InputIs(page, limit) /\ linkOptions.totalDocs = Num(0)) =>
            /\ EmittedRelations = {"first", "last"}
            /\ Entry("first").url = UrlOfPage(1)
            /\ Entry("last").url = UrlOfPage(1)

\* C5 amended: with totalDocs = 0, page >= 1 and limit >= 1 the header has no
\* `next`, `first` and `last` both point at page 1, and `prev` is present iff
\* page > 1 (pointing at page - 1).
C5_NoNextPrevIffPageGtOne ==
    \A page \in Pages, limit \in Limits :
        (InputIs(page, limit) /\ linkOptions.totalDocs = Num(0)) =>
            /\ EmittedRelations = {"first", "last"} \cup (IF page > 1 THEN {"prev"} ELSE {})
            /\ Entry("first").url = UrlOfPage(1)
            /\ Entry("last").url = UrlOfPage(1)
            /\ Has("prev") => Entry("prev").url = UrlOfPage(page - 1)

\* C5 witness: no documents, page 2, and a `prev` to page 1 next to `first` and
\* `last`.
C5_Witness ==
    /\ InputIs(2, 1)
    /\ linkOptions.totalDocs = Num(0)
    /\ EmittedRelations = {"first", "last", "prev"}
    /\ Entry("last").url = UrlOfPage(1)

\* C7: the builder fails iff limit is zero: with limit = 0 the call ends in an
\* error and produces no header, with limit >= 1 it returns a header.
C7_FailsIffLimitZero ==
    \A page \in Pages :
        (Called /\ linkOptions.page = DecimalChars(page)
                /\ linkOptions.totalDocs.kind = "finite") =>
            /\ linkOptions.limit = <<"0">> =>
                  outcome.status = "threw" /\ outcome.links = <<>>
            /\ (\E limit \in Limits : linkOptions.limit = DecimalChars(limit)) =>
                  outcome.status = "returned" /\ outcome.links # <<>>

\* C10: for page >= 1, limit >= 1, totalDocs >= 0, with lastPage the page the
\* `last` URL points to, `next` is emitted exactly when page < lastPage, exact
\* multiples included; so `next` never points past lastPage.
C10_NextIffBeforeLast ==
    \A page \in Pages, limit \in Limits :
        InputIs(page, limit) =>
            \E last \in 1..(MaxTotalDocs + 1) :
                /\ Entry("last").url = UrlOfPage(last)
                /\ Has("next") <=> page < last
                /\ Has("next") =>
                      \E next \in 2..last : Entry("next").url = UrlOfPage(next)

\* C10 witness: totalDocs an exact multiple of limit and the current page the
\* last full one: `next` is emitted and points at the page of `last`.
C10_Witness ==
    /\ InputIs(2, 2)
    /\ linkOptions.totalDocs = Num(4)
    /\ Has("next")
    /\ Entry("next").url = UrlOfPage(3)
    /\ Entry("last").url = UrlOfPage(3)

\* ------------------------------------------------------ the pipeline (Spec)
\* The inputs of the builder as intercept is said to derive them.
PageOf(req) == IF req.query.page = Undefined THEN <<"1">> ELSE req.query.page.chars
LimitOf(req) ==
    IF req.query.per_page = Undefined THEN <<"1", "0", "0">> ELSE req.query.per_page.chars

\* The url up to, and without, its first '?'.
IsResourceUrlOf(resourceUrl, url) ==
    \E k \in 0..Len(url) :
        /\ \A i \in 1..k : url[i] # "?"
        /\ k = Len(url) \/ url[k + 1] = "?"
        /\ resourceUrl = Join(SubSeq(url, 1, k))

\* C6 as stated: the Link header is set exactly once per response, only after
\* the handler's result is available, and never on a response whose handler
\* has thrown or has produced no result.
C6_SetOnceAfterResult ==
    \A r \in DOMAIN pc :
        /\ setHeaderCalls[r] <= 1
        /\ emitted[r] >= 1 => setHeaderCalls[r] = 1 /\ responseHeader[r] # NoHeader
        /\ (emitted[r] = 0 \/ pc[r] = "errored") =>
              setHeaderCalls[r] = 0 /\ responseHeader[r] = NoHeader

\* Whether a string has a character that no header value may hold.
HasControlCharacter(chars) ==
    \E i \in 1..Len(chars) : chars[i] \in {"\n", "\f", "\r"}

\* The header of the request's own inputs and of the result emitted last.
HeaderOfLatestResult(r) ==
    setLinkHeader([page |-> PageOf(request[r]),
                   limit |-> LimitOf(request[r]),
                   resourceUrl |-> closure[r].resourceUrl,
                   totalDocs |-> payload[r].totalDocs]).header

\* C6 amended: for every result (object) the handler's stream emits, the
\* builder runs and response.setHeader is called once, as that result
\* arrives. When page and per_page hold no control character the call sets
\* the header: exactly once for a handler with a single result, and again
\* for each further one, so that the response carries the header of the
\* latest result, also after a later error. When page or per_page holds a
\* control character the call throws: no header is set and the request
\* errors on its first result. The header is never set while the handler has
\* produced no result, nor when it throws before its first result or its
\* result is undefined.
C6_SetOncePerResult ==
    \A r \in DOMAIN pc :
        /\ setHeaderCalls[r] = emitted[r]
        /\ pc[r] = "idle" => emitted[r] = 0
        /\ emitted[r] = 0 => responseHeader[r] = NoHeader /\ payload[r] = NoData
        /\ emitted[r] >= 1 =>
              /\ payload[r] # NoData
              /\ IF HasControlCharacter(PageOf(request[r]) \o LimitOf(request[r]))
                 THEN /\ responseHeader[r] = NoHeader
                      /\ pc[r] = "errored"
                      /\ emitted[r] = 1
                 ELSE responseHeader[r] = HeaderOfLatestResult(r)

\* C6 witness: one handler has produced two results, a count of 250 and then
\* an object without a count, and then thrown: its response carries the
\* header of the second result, set by the second of two calls. Another
\* request, its page the string "undefined", has a line feed in per_page: its
\* one result has left no header and an errored request.
C6_Witness ==
    \E r, q \in DOMAIN pc :
        /\ pc[r] = "errored" /\ emitted[r] = 2 /\ setHeaderCalls[r] = 2
        /\ request[r].query = [page |-> Undefined, per_page |-> Undefined]
        /\ payload[r] = Data(NaN)
        /\ responseHeader[r] =
              "</a?page=1&per_page=100>; rel=\"first\"; per_page=\"100\"; page=\"1\", "
              \o "</a?page=NaN&per_page=100>; rel=\"last\"; per_page=\"100\"; page=\"1\""
        /\ request[q].query =
              [page |-> String(<<"u", "n", "d", "e", "f", "i", "n", "e", "d">>),
               per_page |-> String(<<"\n", "2">>)]
        /\ closure[q].page = <<"u", "n", "d", "e", "f", "i", "n", "e", "d">>
        /\ pc[q] = "errored" /\ emitted[q] = 1 /\ setHeaderCalls[q] = 1
        /\ payload[q] = Data(Num(250))
        /\ responseHeader[q] = NoHeader

\* C8: page is the `page` query parameter or "1" when absent, limit the
\* `per_page` parameter or "100" when absent, resourceUrl the url before its
\* first '?', totalDocs the payload's; the header set on the response is the
\* builder's result on these four values.
C8_InputsDerivedFromRequest ==
    \A r \in DOMAIN pc :
        /\ pc[r] # "idle" =>
              /\ closure[r].page = PageOf(request[r])
              /\ closure[r].limit = LimitOf(request[r])
              /\ IsResourceUrlOf(closure[r].resourceUrl, request[r].url)
        /\ responseHeader[r] # NoHeader =>
              /\ pc[r] # "idle" /\ emitted[r] >= 1
              /\ responseHeader[r] =
                    setLinkHeader([page |-> PageOf(request[r]),
                                   limit |-> LimitOf(request[r]),
                                   resourceUrl |-> closure[r].resourceUrl,
                                   totalDocs |-> payload[r].totalDocs]).header

\* C8 witness: a request without page and per_page, its handler reporting 250
\* documents (page 1 of 3 at 100 per page), and a request with both, its url
\* with two '?'.
C8_Witness ==
    \E r, q \in DOMAIN pc :
        /\ emitted[r] >= 1
        /\ request[r] = [url |-> <<"/", "a">>,
                         query |-> [page |-> Undefined, per_page |-> Undefined]]
        /\ payload[r].totalDocs = Num(250)
        /\ closure[r] = [resourceUrl |-> "/a", page |-> <<"1">>,
                         limit |-> <<"1", "0", "0">>]
        /\ responseHeader[r] =
              "</a?page=1&per_page=100>; rel=\"first\"; per_page=\"100\"; page=\"1\", "
              \o "</a?page=3&per_page=100>; rel=\"last\"; per_page=\"100\"; page=\"1\", "
              \o "</a?page=2&per_page=100>; rel=\"next\"; per_page=\"100\"; page=\"2\""
        /\ emitted[q] >= 1
        /\ request[q].query = [page |-> String(<<"3">>), per_page |-> String(<<"2">>)]
        /\ Len(SelectSeq(request[q].url, LAMBDA c : c = "?")) = 2
        /\ closure[q] = [resourceUrl |-> "/b/c", page |-> <<"3">>, limit |-> <<"2">>]

\* What belongs to request r.
Own(r) ==
    <<request[r], pc[r], closure[r], payload[r], emitted[r], responseHeader[r],
      setHeaderCalls[r]>>

\* C9: whatever the interleaving, a step that sets the header of a response
\* computes it from that request's page, per_page and url and that request's
\* handler result alone, and every step leaves all other requests as they are.
C9_RequestsIsolated ==
    [][\A r \in DOMAIN pc :
          /\ responseHeader'[r] # responseHeader[r] =>
                responseHeader'[r] =
                    setLinkHeader([page |-> PageOf(request[r]),
                                   limit |-> LimitOf(request[r]),
                                   resourceUrl |-> Join(SplitFirst(request[r].url)),
                                   totalDocs |-> payload'[r].totalDocs]).header
          /\ Own(r)' # Own(r) => \A q \in DOMAIN pc \ {r} : Own(q)' = Own(q)]_vars

\* C9 witness: two requests with different page, per_page and url in flight
\* together, their handlers with different results, each response with the
\* header of its own inputs.
C9_Witness ==
    /\ NumRequests >= 2
    /\ emitted[1] >= 1 /\ emitted[2] >= 1
    /\ request[1].url = <<"/", "a">>
    /\ request[1].query = [page |-> Undefined, per_page |-> Undefined]
    /\ request[2].query = [page |-> String(<<"3">>), per_page |-> String(<<"2">>)]
    /\ payload[1] = Data(NaN) /\ payload[2] = Data(Num(250))
    /\ responseHeader[1] =
          "</a?page=1&per_page=100>; rel=\"first\"; per_page=\"100\"; page=\"1\", "
          \o "</a?page=NaN&per_page=100>; rel=\"last\"; per_page=\"100\"; page=\"1\""
    /\ responseHeader[2] =
          "</b/c?page=1&per_page=2>; rel=\"first\"; per_page=\"2\"; page=\"3\", "
          \o "</b/c?page=126&per_page=2>; rel=\"last\"; per_page=\"2\"; page=\"3\", "
          \o "</b/c?page=4&per_page=2>; rel=\"next\"; per_page=\"2\"; page=\"4\", "
          \o "</b/c?page=2&per_page=2>; rel=\"prev\"; per_page=\"2\"; page=\"2\""

====
